---- MODULE Spec2Model ----
(***************************************************************************)
(* Model of dataset_browser.py: the heuristic chord classifier             *)
(* (midi_notes_to_chord_name), the progression analyzer, the paginated     *)
(* browse query, similarity generation and the command line entry point.   *)
(*                                                                         *)
(* Python values are modelled as follows.                                  *)
(*   str          a sequence of one-character strings, <<"C","#">>          *)
(*   tuple, list  a sequence                                               *)
(*   int          an integer                                               *)
(*   None         the string "None"; an absent integer option is <<>>,     *)
(*                a given one <<n>>                                        *)
(*   messages     printed lines are records tagged with what they report   *)
(* The optional music21 branch of midi_notes_to_chord_name (lines 36-49)   *)
(* is an external library that is not part of the repository; the model    *)
(* covers the path taken when the import fails, which is the rule based    *)
(* code below it.                                                          *)
(***************************************************************************)
EXTENDS Integers, Sequences, FiniteSets, TLC

VARIABLES
    pc,           \* position of the modelled call or of main
    notes_tuple,  \* argument of midi_notes_to_chord_name
    locals,       \* locals of midi_notes_to_chord_name at its return
    label,        \* value returned by midi_notes_to_chord_name
    dataset,      \* the collection handed to the query functions / loaded by main
    call,         \* the last query call: its name and arguments
    filtered,     \* browse_dataset's local filtered_data at its return
    result,       \* value returned by the last query call
    collected,    \* raw progressions of the pages fetched so far, page after page
    env,          \* what main finds on disk
    args,         \* parsed command line of main
    stdout,       \* what main has printed, in order
    fault         \* the exception that ended main uncaught, or None

vars == <<pc, notes_tuple, locals, label, dataset, call, filtered, result,
          collected, env, args, stdout, fault>>

None == "None"

(***************************************************************************)
(* Bounds of the model.                                                    *)
(***************************************************************************)
\* pitches of the ascending, duplicate free inputs are LowPitch .. LowPitch+PitchSpan-1
PitchSpan == 12
\* longest arbitrary (unsorted, possibly repeating) input tuple
MaxTupleLen == 3
\* pitches of the arbitrary tuples are LowPitch .. LowPitch+TupleSpan-1
TupleSpan == 9

LowPitch == 60

(***************************************************************************)
(* Python built-ins used by the code.                                      *)
(***************************************************************************)
Range(s) == { s[i] : i \in 1..Len(s) }

Min2(a, b) == IF a <= b THEN a ELSE b

RECURSIVE Insert(_, _)
Insert(x, s) ==
    IF s = <<>> THEN <<x>>
    ELSE IF x <= Head(s) THEN <<x>> \o s
    ELSE <<Head(s)>> \o Insert(x, Tail(s))

\* sorted(list(t)): ascending, repeated values kept
RECURSIVE sorted(_)
sorted(t) == IF t = <<>> THEN <<>> ELSE Insert(Head(t), sorted(Tail(t)))

\* one decimal digit as a character
Digit(d) == <<"0","1","2","3","4","5","6","7","8","9">>[d + 1]

\* str(n) for n >= 0, as f"{n}" formats it
RECURSIVE IntToStr(_)
IntToStr(n) == IF n < 10 THEN <<Digit(n)>> ELSE IntToStr(n \div 10) \o <<Digit(n % 10)>>

\* s.endswith(suf)
EndsWith(s, suf) ==
    /\ Len(suf) <= Len(s)
    /\ SubSeq(s, Len(s) - Len(suf) + 1, Len(s)) = suf

\* s.startswith(pre)
StartsWith(s, pre) ==
    /\ Len(pre) <= Len(s)
    /\ SubSeq(s, 1, Len(pre)) = pre

\* sub in s  (substring test; the empty string is in every string)
Contains(s, sub) ==
    \E i \in 1..(Len(s) + 1) :
        /\ i + Len(sub) - 1 <= Len(s)
        /\ SubSeq(s, i, i + Len(sub) - 1) = sub

UpperChars == <<"A","B","C","D","E","F","G","H","I","J","K","L","M",
                "N","O","P","Q","R","S","T","U","V","W","X","Y","Z">>
LowerChars == <<"a","b","c","d","e","f","g","h","i","j","k","l","m",
                "n","o","p","q","r","s","t","u","v","w","x","y","z">>

LowerChar(c) ==
    IF \E i \in 1..Len(UpperChars) : UpperChars[i] = c
    THEN LowerChars[CHOOSE i \in 1..Len(UpperChars) : UpperChars[i] = c]
    ELSE c

\* s.lower()
Lower(s) == [i \in 1..Len(s) |-> LowerChar(s[i])]

(***************************************************************************)
(* midi_notes_to_chord_name                                                *)
(***************************************************************************)
note_names == << <<"C">>, <<"C","#">>, <<"D">>, <<"D","#">>, <<"E">>, <<"F">>,
                 <<"F","#">>, <<"G">>, <<"G","#">>, <<"A">>, <<"A","#">>, <<"B">> >>

\* line 71: the intervals of notes[1:] from notes[0], duplicates removed
Intervals(notes) == { (notes[i] - notes[1]) % 12 : i \in 2..Len(notes) }

\* variant of QualityStep: the rules of each pair tried in the other order
QualityWrongOrder(root_name, intervals) ==
    LET has_maj3 == 4 \in intervals
        has_min3 == 3 \in intervals
        has_p5   == 7 \in intervals
        has_dim5 == 6 \in intervals
        has_aug5 == 8 \in intervals
        has_9    == 2 \in intervals
        has_11   == 5 \in intervals
    IN  IF has_min3 THEN root_name \o <<"m">>
        ELSE IF has_min3 /\ has_dim5 THEN root_name \o <<"d","i","m">>
        ELSE IF has_maj3 /\ has_p5 THEN root_name
        ELSE IF has_maj3 /\ has_aug5 THEN root_name \o <<"a","u","g">>
        ELSE IF has_maj3 /\ has_dim5 THEN root_name \o <<"7">>
        ELSE IF ~has_maj3 /\ ~has_min3
             THEN IF has_9 THEN root_name \o <<"s","u","s","2">>
                  ELSE IF has_11 THEN root_name \o <<"s","u","s","4">>
                  ELSE root_name
        ELSE root_name

\* lines 86-104: the name after the basic quality has been decided
QualityStep(root_name, intervals) ==
    LET has_maj3 == 4 \in intervals
        has_min3 == 3 \in intervals
        has_p5   == 7 \in intervals
        has_dim5 == 6 \in intervals
        has_aug5 == 8 \in intervals
        has_9    == 2 \in intervals
        has_11   == 5 \in intervals
    IN  IF has_min3 /\ has_dim5 THEN root_name \o <<"d","i","m">>
        ELSE IF has_min3 THEN root_name \o <<"m">>
        ELSE IF has_maj3 /\ has_aug5 THEN root_name \o <<"a","u","g">>
        ELSE IF has_maj3 /\ has_p5 THEN root_name
        ELSE IF has_maj3 /\ has_dim5 THEN root_name \o <<"7">>
        ELSE IF ~has_maj3 /\ ~has_min3
             THEN IF has_11 THEN root_name \o <<"s","u","s","4">>
                  ELSE IF has_9 THEN root_name \o <<"s","u","s","2">>
                  ELSE root_name
        ELSE root_name

\* lines 106-113: the seventh
SeventhStep(chord_name, intervals) ==
    LET has_min7 == 10 \in intervals
        has_maj7 == 11 \in intervals
    IN  IF has_maj7 THEN chord_name \o <<"m","a","j","7">>
        ELSE IF has_min7 THEN chord_name \o <<"7">>
        ELSE chord_name

\* variant of ExtensionStep: the trailing 7 is never removed
ExtensionKeeps7(chord_name, intervals) ==
    LET has_9  == 2 \in intervals
        has_11 == 5 \in intervals
        has_13 == 9 \in intervals
        extensions == IF has_13 THEN << <<"1","3">> >>
                      ELSE IF has_11 THEN << <<"1","1">> >>
                      ELSE IF has_9 THEN << <<"9">> >>
                      ELSE <<>>
    IN  IF extensions # <<>> THEN chord_name \o extensions[1] ELSE chord_name

\* lines 115-128: the single highest extension, a bare trailing 7 removed first
ExtensionStep(chord_name, intervals) ==
    LET has_9  == 2 \in intervals
        has_11 == 5 \in intervals
        has_13 == 9 \in intervals
        extensions == IF has_13 THEN << <<"1","3">> >>
                      ELSE IF has_11 THEN << <<"1","1">> >>
                      ELSE IF has_9 THEN << <<"9">> >>
                      ELSE <<>>
        stripped == IF EndsWith(chord_name, <<"7">>)
                       /\ ~EndsWith(chord_name, <<"m","a","j","7">>)
                    THEN SubSeq(chord_name, 1, Len(chord_name) - 1)
                    ELSE chord_name
    IN  IF extensions # <<>> THEN stripped \o extensions[1] ELSE chord_name

\* lines 130-134: the return of the three-or-more branch; n is len(notes)
OverflowStep(chord_name, intervals, n) ==
    IF Cardinality(intervals) > 5
    THEN chord_name \o <<"(">> \o IntToStr(n) \o <<")">>
    ELSE chord_name

\* lines 57-58, notes being the sorted input
RootName(notes) == note_names[(notes[1] % 12) + 1]

\* lines 86-134 on the root name and the interval set
ThreeOrMore(root_name, intervals, n) ==
    OverflowStep(
        ExtensionStep(SeventhStep(QualityStep(root_name, intervals), intervals), intervals),
        intervals, n)

\* lines 56-136, notes being sorted(list(notes_tuple)), not empty
NameOfSorted(notes) ==
    IF Len(notes) = 1 THEN RootName(notes)
    ELSE IF Len(notes) = 2
         THEN IF (notes[2] - notes[1]) % 12 = 7
              THEN RootName(notes) \o <<"5">>
              ELSE RootName(notes) \o <<"2">>
    ELSE ThreeOrMore(RootName(notes), Intervals(notes), Len(notes))

\* lines 31-136 without the music21 attempt
midi_notes_to_chord_name(t) ==
    IF t = <<>> THEN <<"R","e","s","t">> ELSE NameOfSorted(sorted(t))

\* the locals of the three-or-more branch when the function returns: the
\* interval set and chord_name after lines 104, 113 and 128; a path that
\* never assigns them leaves the empty set / empty string
LocalsOfSorted(notes) ==
    IF Len(notes) >= 3
    THEN [intervals |-> Intervals(notes),
          quality |-> QualityStep(RootName(notes), Intervals(notes)),
          seventh |-> SeventhStep(QualityStep(RootName(notes), Intervals(notes)),
                                  Intervals(notes)),
          extended |-> ExtensionStep(
                          SeventhStep(QualityStep(RootName(notes), Intervals(notes)),
                                      Intervals(notes)),
                          Intervals(notes))]
    ELSE [intervals |-> {}, quality |-> <<>>, seventh |-> <<>>, extended |-> <<>>]

ChordLocals(t) == LocalsOfSorted(sorted(t))

(***************************************************************************)
(* More Python built-ins.                                                  *)
(***************************************************************************)
Max2(a, b) == IF a >= b THEN a ELSE b

\* s[i:j] with Python's clamping of both ends and its negative indices
PySlice(s, i, j) ==
    LET n  == Len(s)
        lo == IF i < 0 THEN Max2(n + i, 0) ELSE Min2(i, n)
        hi == IF j < 0 THEN Max2(n + j, 0) ELSE Min2(j, n)
    IN  IF hi <= lo THEN <<>> ELSE SubSeq(s, lo + 1, hi)

RECURSIVE SumSeq(_)
SumSeq(s) == IF s = <<>> THEN 0 ELSE Head(s) + SumSeq(Tail(s))

\* sep.join(names)
RECURSIVE Join(_, _)
Join(sep, names) ==
    IF names = <<>> THEN <<>>
    ELSE IF Len(names) = 1 THEN names[1]
    ELSE names[1] \o sep \o Join(sep, Tail(names))

\* round(num/den * 10^k) for num >= 0, den > 0, given num already scaled by
\* 10^k: the nearest integer, a tie going to the even one.  Python rounds the
\* float num/den; the two agree whenever a tie is a dyadic fraction, which
\* is the case for every den below 20 (one decimal) and below 8 (two).
RoundHalfEven(num, den) ==
    LET q == num \div den
        r == num % den
    IN  IF 2 * r < den THEN q
        ELSE IF 2 * r > den THEN q + 1
        ELSE IF q % 2 = 0 THEN q ELSE q + 1

(***************************************************************************)
(* convert_progression_to_chords, analyze_progression                      *)
(***************************************************************************)
convert_progression_to_chords(progression) ==
    [i \in 1..Len(progression) |-> midi_notes_to_chord_name(progression[i])]

\* variant of Patterns: flags computed from 3 labels on
PatternsFromThree(chord_names) ==
    IF Len(chord_names) >= 3
    THEN (IF chord_names[1] = chord_names[Len(chord_names)]
          THEN <<"Returns to root">> ELSE <<>>)
         \o (IF Contains(Join(<<" ">>, PySlice(chord_names, 0, 4)),
                         <<"C"," ","F"," ","G">>)
             THEN <<"Contains I-IV-V pattern">> ELSE <<>>)
         \o (IF \E k \in 1..Len(chord_names) : EndsWith(chord_names[k], <<"m">>)
             THEN <<"Contains minor chords">> ELSE <<>>)
    ELSE <<>>

\* lines 194-206: the pattern flags, in the order they are appended
Patterns(chord_names) ==
    IF Len(chord_names) >= 4
    THEN (IF chord_names[1] = chord_names[Len(chord_names)]
          THEN <<"Returns to root">> ELSE <<>>)
         \o (IF Contains(Join(<<" ">>, PySlice(chord_names, 0, 4)),
                         <<"C"," ","F"," ","G">>)
             THEN <<"Contains I-IV-V pattern">> ELSE <<>>)
         \o (IF \E k \in 1..Len(chord_names) : EndsWith(chord_names[k], <<"m">>)
             THEN <<"Contains minor chords">> ELSE <<>>)
    ELSE <<>>

\* line 178
NoteCounts(progression) == [i \in 1..Len(progression) |-> Len(progression[i])]

\* line 182: min(int(unique_chords * 1.5 + avg_notes), 10), avg_notes being
\* total / n, or 0 when n is 0 (line 179)
ComplexityScore(unique_chords, total, n) ==
    Min2(IF n = 0 THEN (3 * unique_chords) \div 2
         ELSE (3 * unique_chords * n + 2 * total) \div (2 * n),
         10)

\* lines 179, 189: round(avg_notes, 1), kept in tenths
AverageNotes(total, n) == IF n = 0 THEN 0 ELSE RoundHalfEven(10 * total, n)

\* lines 177-210 on the labels and note counts of the progression
AnalysisOf(progression, chord_names, note_counts) ==
    [chord_count |-> Len(progression),
     unique_chords |-> Cardinality(Range(chord_names)),
     chord_names |-> chord_names,
     complexity_score |-> ComplexityScore(Cardinality(Range(chord_names)),
                                          SumSeq(note_counts), Len(note_counts)),
     average_notes_per_chord |-> AverageNotes(SumSeq(note_counts), Len(note_counts)),
     note_counts |-> note_counts,
     midi_data |-> progression,
     common_patterns |-> Patterns(chord_names)]

analyze_progression(progression) ==
    AnalysisOf(progression, convert_progression_to_chords(progression),
               NoteCounts(progression))

(***************************************************************************)
(* browse_dataset                                                          *)
(***************************************************************************)
\* lines 219-220
FilterByLength(data, min_length) ==
    IF min_length > 0
    THEN SelectSeq(data, LAMBDA prog : Len(prog) >= min_length)
    ELSE data

\* variant of FilterBySearch: the label is not lower-cased
FilterBySearchCaseSensitive(data, search_query) ==
    IF search_query # <<>>
    THEN SelectSeq(data, LAMBDA prog :
            LET chord_names == convert_progression_to_chords(prog)
            IN  \E k \in 1..Len(chord_names) :
                    Contains(chord_names[k], Lower(search_query)))
    ELSE data

\* lines 223-229
FilterBySearch(data, search_query) ==
    IF search_query # <<>>
    THEN SelectSeq(data, LAMBDA prog :
            LET chord_names == convert_progression_to_chords(prog)
            IN  \E k \in 1..Len(chord_names) :
                    Contains(Lower(chord_names[k]), Lower(search_query)))
    ELSE data

\* lines 216-229: the local filtered_data when pagination starts
FilteredData(data, search_query, min_length) ==
    FilterBySearch(FilterByLength(data, min_length), search_query)

\* variant of PageData: pages counted from 0
PageDataFromZero(filtered_data, page, items_per_page) ==
    LET start_idx == page * items_per_page
        end_idx   == start_idx + items_per_page
    IN  PySlice(filtered_data, start_idx, end_idx)

\* lines 233-235
PageData(filtered_data, page, items_per_page) ==
    LET start_idx == (page - 1) * items_per_page
        end_idx   == start_idx + items_per_page
    IN  PySlice(filtered_data, start_idx, end_idx)

\* variant of HasNext: <= in place of <
HasNextInclusive(page, items_per_page, total_items) ==
    LET end_idx == (page - 1) * items_per_page + items_per_page
    IN  end_idx <= total_items

\* lines 233-234, 256
HasNext(page, items_per_page, total_items) ==
    LET end_idx == (page - 1) * items_per_page + items_per_page
    IN  end_idx < total_items

\* lines 241-248: one entry of the page
PageEntry(id, prog, analysis) ==
    [id |-> id,
     raw_progression |-> prog,
     chords |-> analysis.chord_names,
     chord_count |-> analysis.chord_count,
     complexity |-> analysis.complexity_score,
     patterns |-> analysis.common_patterns]

\* lines 238-248; start_idx is (page - 1) * items_per_page
PageEntries(page_data, start_idx) ==
    [i \in 1..Len(page_data) |->
        PageEntry(start_idx + (i - 1), page_data[i], analyze_progression(page_data[i]))]

\* lines 231-258 on the local filtered_data
BrowseResult(filtered_data, page, items_per_page) ==
    [progressions |-> PageEntries(PageData(filtered_data, page, items_per_page),
                                  (page - 1) * items_per_page),
     page |-> page,
     items_per_page |-> items_per_page,
     total_items |-> Len(filtered_data),
     total_pages |-> (Len(filtered_data) + items_per_page - 1) \div items_per_page,
     has_next |-> HasNext(page, items_per_page, Len(filtered_data)),
     has_previous |-> page > 1]

browse_dataset(data, page, items_per_page, search_query, min_length) ==
    BrowseResult(FilteredData(data, search_query, min_length), page, items_per_page)

(***************************************************************************)
(* generate_similar_progression                                            *)
(***************************************************************************)
\* variant of SimilarLength: lengths within 3
SimilarLengthWithin3(template_progression, data) ==
    SelectSeq(data, LAMBDA prog :
        LET d == Len(prog) - Len(template_progression)
        IN  (IF d < 0 THEN -d ELSE d) <= 3)

\* lines 262-265
SimilarLength(template_progression, data) ==
    SelectSeq(data, LAMBDA prog :
        LET d == Len(prog) - Len(template_progression)
        IN  (IF d < 0 THEN -d ELSE d) <= 2)

\* random.choice(seq): any element; IndexError on an empty sequence
random_choice(seq) ==
    IF seq = <<>> THEN { [raised |-> "IndexError"] }
    ELSE { [raised |-> None, value |-> seq[i]] : i \in 1..Len(seq) }

\* lines 267-270
ChoiceAmong(similar_length, data) ==
    IF similar_length # <<>>
    THEN random_choice(similar_length)
    ELSE random_choice(data)

\* lines 260-270: the outcomes the random source allows
generate_similar_progression(template_progression, data) ==
    ChoiceAmong(SimilarLength(template_progression, data), data)

(***************************************************************************)
(* Inputs of the classifier.                                               *)
(***************************************************************************)
RECURSIVE SetToSortedSeq(_)
SetToSortedSeq(S) ==
    IF S = {} THEN <<>>
    ELSE LET m == CHOOSE x \in S : \A y \in S : x <= y
         IN  <<m>> \o SetToSortedSeq(S \ {m})

\* chords as the dataset stores them: ascending tuples of distinct pitches
AscendingInputs == { SetToSortedSeq(S) : S \in SUBSET (LowPitch..(LowPitch + PitchSpan - 1)) }

\* tuples in any order, pitches possibly repeated
TupleInputs ==
    UNION { [1..n -> LowPitch..(LowPitch + TupleSpan - 1)] : n \in 0..MaxTupleLen }

ClassifyInputs == AscendingInputs \cup TupleInputs

NoLocals == [intervals |-> {}, quality |-> <<>>, seventh |-> <<>>, extended |-> <<>>]

NoEnv == [file |-> None]
NoArgs == [command |-> None]
NoCall == [fn |-> None]

(***************************************************************************)
(* Specification of the classifier: one call on one input.                 *)
(***************************************************************************)
InitClassify ==
    /\ pc = "call"
    /\ notes_tuple \in ClassifyInputs
    /\ locals = NoLocals
    /\ label = None
    /\ dataset = <<>>
    /\ call = NoCall
    /\ filtered = <<>>
    /\ result = None
    /\ collected = <<>>
    /\ env = NoEnv
    /\ args = NoArgs
    /\ stdout = <<>>
    /\ fault = None

CallChordName ==
    /\ pc = "call"
    /\ locals' = ChordLocals(notes_tuple)
    /\ label' = midi_notes_to_chord_name(notes_tuple)
    /\ pc' = "done"
    /\ UNCHANGED <<notes_tuple, dataset, call, filtered, result, collected, env, args, stdout, fault>>

NextClassify == CallChordName

SpecClassify == InitClassify /\ [][NextClassify]_vars

(***************************************************************************)
(* Claims about the classifier.                                            *)
(***************************************************************************)
Classified == pc = "done"

\* the three-or-more branch, within the overflow guard
Nameable ==
    /\ Classified
    /\ Len(notes_tuple) >= 3
    /\ Cardinality(locals.intervals) <= 5

\* the root name: pitch class of the lowest pitch
RootNameOf(t) ==
    note_names[((CHOOSE x \in Range(t) : \A y \in Range(t) : x <= y) % 12) + 1]

\* the quality rules in their stated order: a rule matches when all of `need`
\* and none of `forbid` are among the intervals
QualityRules ==
    << [need |-> {3, 6}, forbid |-> {},     suffix |-> <<"d","i","m">>],
       [need |-> {3},    forbid |-> {},     suffix |-> <<"m">>],
       [need |-> {4, 8}, forbid |-> {},     suffix |-> <<"a","u","g">>],
       [need |-> {4, 7}, forbid |-> {},     suffix |-> <<>>],
       [need |-> {4, 6}, forbid |-> {},     suffix |-> <<"7">>],
       [need |-> {5},    forbid |-> {3, 4}, suffix |-> <<"s","u","s","4">>],
       [need |-> {2},    forbid |-> {3, 4}, suffix |-> <<"s","u","s","2">>] >>

RuleMatches(r, I) == r.need \subseteq I /\ r.forbid \cap I = {}

FirstMatchSuffix(I) ==
    IF \E k \in 1..Len(QualityRules) : RuleMatches(QualityRules[k], I)
    THEN LET k == CHOOSE j \in 1..Len(QualityRules) :
                      /\ RuleMatches(QualityRules[j], I)
                      /\ \A h \in 1..(j - 1) : ~RuleMatches(QualityRules[h], I)
         IN  QualityRules[k].suffix
    ELSE <<>>

HasExtension(I) == I \cap {2, 5, 9} # {}

\* C1: for three or more pitches with at most 5 distinct interval classes,
\* the name built right after the root is the root name followed by the
\* suffix of the first matching quality rule (dim, m, aug, none, 7, sus4,
\* sus2, else none); the returned label starts with it unless the suffix
\* is a bare "7" that the extension step removed.
C1_QualityByFirstMatch ==
    Nameable =>
        LET I == locals.intervals
            q == RootNameOf(notes_tuple) \o FirstMatchSuffix(I)
        IN  /\ locals.quality = q
            /\ \/ StartsWith(label, q)
               \/ /\ FirstMatchSuffix(I) = <<"7">>
                  /\ I \cap {10, 11} = {}
                  /\ HasExtension(I)

\* a nameable chord with a major third and a diminished fifth but no
\* augmented or perfect fifth: the fifth rule gave "7"
C1_Witness ==
    /\ Nameable
    /\ {4, 6} \subseteq locals.intervals
    /\ locals.intervals \cap {3, 7, 8} = {}
    /\ locals.quality = RootNameOf(notes_tuple) \o <<"7">>

\* what the seventh and extension steps are to make of the name `q`
ExpectedSeventh(q, I) ==
    IF 11 \in I THEN q \o <<"m","a","j","7">>
    ELSE IF 10 \in I THEN q \o <<"7">>
    ELSE q

EndsInBare7(s) ==
    /\ Len(s) >= 1
    /\ s[Len(s)] = "7"
    /\ ~(Len(s) >= 4 /\ s[Len(s) - 3] = "m" /\ s[Len(s) - 2] = "a" /\ s[Len(s) - 1] = "j")

HighestExtension(I) ==
    IF 9 \in I THEN <<"1","3">> ELSE IF 5 \in I THEN <<"1","1">> ELSE <<"9">>

ExpectedLabel(q, I) ==
    LET s == ExpectedSeventh(q, I)
    IN  IF ~HasExtension(I) THEN s
        ELSE IF EndsInBare7(s) THEN SubSeq(s, 1, Len(s) - 1) \o HighestExtension(I)
        ELSE s \o HighestExtension(I)

\* C2: for three or more pitches with at most 5 distinct interval classes,
\* the label is the quality name, then "maj7" if interval 11 is present else
\* "7" if interval 10 is present, then exactly one extension (13 for interval
\* 9, else 11 for interval 5, else 9 for interval 2) with a bare trailing
\* "7" removed first; without an extension interval nothing is removed or
\* appended.
C2_SeventhThenExtension ==
    Nameable =>
        /\ locals.seventh = ExpectedSeventh(locals.quality, locals.intervals)
        /\ label = ExpectedLabel(locals.quality, locals.intervals)

\* a dominant seventh with a thirteenth: the bare 7 was removed, 13 appended
C2_Witness ==
    /\ Nameable
    /\ {4, 7, 9, 10} \subseteq locals.intervals
    /\ 11 \notin locals.intervals
    /\ locals.seventh = RootNameOf(notes_tuple) \o <<"7">>
    /\ label = RootNameOf(notes_tuple) \o <<"1","3">>

\* C3 (as stated): with more than 5 distinct interval classes the label is
\* exactly the root name followed by the note count in parentheses.
C3_OverflowIsRootAndCount ==
    (Classified /\ Len(notes_tuple) >= 3 /\ Cardinality(locals.intervals) > 5) =>
        label = RootNameOf(notes_tuple) \o <<"(">> \o IntToStr(Len(notes_tuple)) \o <<")">>

\* the ascending tuple of the distinct pitches of t
Canonical(t) == SetToSortedSeq(Range(t))

\* C4 (as stated): the label depends only on the set of distinct pitches, so
\* every input gets the label of the ascending tuple of its distinct pitches.
C4_LabelOfDistinctPitches ==
    Classified => label = midi_notes_to_chord_name(Canonical(notes_tuple))

(***************************************************************************)
(* Inputs of the query functions.                                          *)
(***************************************************************************)
C_maj == <<60, 64, 67>>
C_min == <<60, 63, 67>>
C_dim == <<60, 63, 66>>
F_maj == <<65, 69, 72>>
G_maj == <<67, 71, 74>>

\* sample progressions of 0, 2, 3 and 4 events
ProgPool ==
    { <<>>,
      <<C_dim, G_maj>>,
      <<C_min, G_maj, C_min>>,
      <<C_maj, F_maj, G_maj, C_maj>> }

\* longest collection
MaxDataset == 3
\* largest items_per_page
MaxItems == 2
\* largest min_length
MaxMinLength == 2

\* main hands the query functions a collection only when it is not empty
\* (line 355)
Datasets == UNION { [1..n -> ProgPool] : n \in 1..MaxDataset }

\* one page more than any collection fills
MaxPage == MaxDataset + 1

Queries == { <<>>, <<"d","i","m">>, <<"D","I","M">>, <<"G">> }

InitQuery ==
    /\ pc = "idle"
    /\ notes_tuple = <<>>
    /\ locals = NoLocals
    /\ label = None
    /\ dataset \in Datasets
    /\ call = NoCall
    /\ filtered = <<>>
    /\ result = None
    /\ collected = <<>>
    /\ env = NoEnv
    /\ args = NoArgs
    /\ stdout = <<>>
    /\ fault = None

RawOf(res) == [i \in 1..Len(res.progressions) |-> res.progressions[i].raw_progression]

\* a caller pages through one query: page 1, then the next page with the
\* same parameters, up to MaxPage
BrowseFirst ==
    /\ pc = "idle"
    /\ \E items_per_page \in 1..MaxItems, search_query \in Queries,
          min_length \in 0..MaxMinLength :
        LET res == browse_dataset(dataset, 1, items_per_page, search_query, min_length)
        IN  /\ call' = [fn |-> "browse", page |-> 1, items_per_page |-> items_per_page,
                        search_query |-> search_query, min_length |-> min_length]
            /\ filtered' = FilteredData(dataset, search_query, min_length)
            /\ result' = res
            /\ collected' = RawOf(res)
    /\ pc' = "paging"
    /\ UNCHANGED <<notes_tuple, locals, label, dataset, env, args, stdout, fault>>

BrowseNext ==
    /\ pc = "paging"
    /\ call.page < MaxPage
    /\ LET res == browse_dataset(dataset, call.page + 1, call.items_per_page,
                                 call.search_query, call.min_length)
       IN  /\ call' = [call EXCEPT !.page = call.page + 1]
           /\ filtered' = FilteredData(dataset, call.search_query, call.min_length)
           /\ result' = res
           /\ collected' = collected \o RawOf(res)
    /\ UNCHANGED <<pc, notes_tuple, locals, label, dataset, env, args, stdout, fault>>

\* one call of analyze_progression on a member of the collection
Analyze ==
    /\ pc = "idle"
    /\ \E i \in 1..Len(dataset) :
        /\ call' = [fn |-> "analyze", progression |-> dataset[i]]
        /\ result' = analyze_progression(dataset[i])
    /\ pc' = "returned"
    /\ UNCHANGED <<notes_tuple, locals, label, dataset, filtered, collected, env, args, stdout, fault>>

\* one call of generate_similar_progression with any template
Generate ==
    /\ pc = "idle"
    /\ \E template \in ProgPool :
        \E outcome \in generate_similar_progression(template, dataset) :
            /\ call' = [fn |-> "generate", template |-> template]
            /\ result' = outcome
    /\ pc' = "returned"
    /\ UNCHANGED <<notes_tuple, locals, label, dataset, filtered, collected, env, args, stdout, fault>>

NextQuery == BrowseFirst \/ BrowseNext \/ Analyze \/ Generate

SpecQuery == InitQuery /\ [][NextQuery]_vars

(***************************************************************************)
(* Claims about the query functions.                                       *)
(***************************************************************************)
Browsed   == call.fn = "browse"
Analyzed  == call.fn = "analyze"
Generated == call.fn = "generate"

\* ceil(a / b) for a >= 0, b >= 1: the least n with n * b >= a
Ceil(a, b) == CHOOSE n \in 0..a : n * b >= a /\ (n = 0 \/ (n - 1) * b < a)

\* C5: total_pages is ceil(total_items / items_per_page); the pages 1 ..
\* total_pages, concatenated in page order, are the filtered sequence with
\* nothing lost or repeated; a page beyond total_pages is empty.
C5_PagesPartitionFiltered ==
    Browsed =>
        /\ result.total_items = Len(filtered)
        /\ result.total_pages = Ceil(result.total_items, call.items_per_page)
        /\ (call.page >= result.total_pages => collected = filtered)
        /\ (call.page > result.total_pages => result.progressions = <<>>)

\* a request one past the last of several pages, the last page being partial
C5_Witness ==
    /\ Browsed
    /\ result.total_pages >= 2
    /\ result.total_items % call.items_per_page # 0
    /\ call.page = result.total_pages + 1
    /\ result.progressions = <<>>
    /\ collected = filtered

\* a progression passes the filters
Keeps(prog, search_query, min_length) ==
    /\ Len(prog) >= min_length
    /\ \/ search_query = <<>>
       \/ \E k \in 1..Len(prog) :
            Contains(Lower(midi_notes_to_chord_name(prog[k])), Lower(search_query))

\* the members of data that pass, in their original relative order
RECURSIVE KeptInOrder(_, _, _)
KeptInOrder(data, search_query, min_length) ==
    IF data = <<>> THEN <<>>
    ELSE (IF Keeps(Head(data), search_query, min_length) THEN <<Head(data)>> ELSE <<>>)
         \o KeptInOrder(Tail(data), search_query, min_length)

UpperChar(c) ==
    IF \E i \in 1..Len(LowerChars) : LowerChars[i] = c
    THEN UpperChars[CHOOSE i \in 1..Len(LowerChars) : LowerChars[i] = c]
    ELSE c

Upper(s) == [i \in 1..Len(s) |-> UpperChar(s[i])]

\* C6: the sequence that is paginated is the progressions with at least
\* min_length events and, for a non-empty query, with a label containing the
\* query case-insensitively, in original order; the query in upper case and
\* in lower case give the same result.
C6_FilterKeepsMatchingInOrder ==
    Browsed =>
        /\ filtered = KeptInOrder(dataset, call.search_query, call.min_length)
        /\ result.total_items = Len(KeptInOrder(dataset, call.search_query, call.min_length))
        /\ browse_dataset(dataset, call.page, call.items_per_page,
                          Upper(call.search_query), call.min_length) = result
        /\ browse_dataset(dataset, call.page, call.items_per_page,
                          Lower(call.search_query), call.min_length) = result

\* an upper-case query and a length limit that each remove something and
\* leave something
C6_Witness ==
    /\ Browsed
    /\ call.search_query = <<"D","I","M">>
    /\ call.min_length > 0
    /\ filtered # <<>>
    /\ \E i \in 1..Len(dataset) : Len(dataset[i]) < call.min_length
    /\ \E i \in 1..Len(dataset) :
          /\ Len(dataset[i]) >= call.min_length
          /\ ~Keeps(dataset[i], call.search_query, 0)

\* C7: has_next is false exactly when page * items_per_page >= total_items,
\* total_items being the length of the filtered sequence.
C7_HasNextFalseAtEnd ==
    Browsed =>
        /\ result.total_items = Len(filtered)
        /\ (result.has_next = FALSE) <=>
              (call.page * call.items_per_page >= Len(filtered))

\* the page that ends exactly at the last item
C7_Witness ==
    /\ Browsed
    /\ Len(filtered) > 0
    /\ call.page * call.items_per_page = Len(filtered)
    /\ result.has_next = FALSE

Abs(x) == IF x < 0 THEN -x ELSE x

C9_EmptyAndShortAnalysis ==
    Analyzed =>
        /\ (Len(call.progression) = 0 =>
              /\ result.chord_count = 0
              /\ result.average_notes_per_chord = 0
              /\ result.chord_names = <<>>
              /\ result.note_counts = <<>>
              /\ result.common_patterns = <<>>)
        /\ (Len(call.progression) < 4 => result.common_patterns = <<>>)

\* the empty progression has been analyzed
C9_Witness ==
    /\ Analyzed
    /\ Len(call.progression) = 0
    /\ result.chord_count = 0
    /\ result.common_patterns = <<>>

(***************************************************************************)
(* main: the command line entry point.                                     *)
(***************************************************************************)
\* default of --items (line 314) and of --page (line 313)
DefaultItems == 10
DefaultPage == 1
\* default of export_lua_index's limit (line 272)
ExportLimit == 1000

\* What is on disk when main starts.
\*   file     "present" / "missing": whether dataset_path exists
\*   content  "ok" / "corrupt": whether pickle.load succeeds on the file (or
\*            on the file the archive yields)
\*   stored   the collection in the file, as list(data) gives it
\*   dir      "listable" / "unlistable": whether os.listdir(zip_dir) succeeds
\*   parts    "none" / "numbered" / "misnamed": the split archive parts found
\*   archive  "good" (extracting yields the dataset file), "other" (it
\*            extracts, without the dataset file), "bad" (it does not extract)
StoredDatasets == UNION { [1..n -> ProgPool] : n \in 0..MaxDataset }

DiskEnv(file, content, stored, dir, parts, archive) ==
    [file |-> file, content |-> content, stored |-> stored, dir |-> dir,
     parts |-> parts, archive |-> archive]

Envs ==
    { DiskEnv("present", "ok", d, None, None, None) : d \in StoredDatasets }
    \cup { DiskEnv("missing", "ok", d, "listable", "numbered", "good") : d \in StoredDatasets }
    \cup { DiskEnv("present", "corrupt", <<>>, None, None, None),
           DiskEnv("missing", "corrupt", <<>>, "listable", "numbered", "good"),
           DiskEnv("missing", None, <<>>, "unlistable", None, None),
           DiskEnv("missing", None, <<>>, "listable", "none", None),
           DiskEnv("missing", None, <<>>, "listable", "misnamed", None),
           DiskEnv("missing", None, <<>>, "listable", "numbered", "other"),
           DiskEnv("missing", None, <<>>, "listable", "numbered", "bad") }

\* --progression-id / --template-id: <<>> when the option is absent (None),
\* <<n>> when it is given; the integers lie on either side of the valid range
NoId == <<>>
Ids == {NoId} \cup { <<n>> : n \in (-1)..MaxDataset }

CmdArgs(command, page, items, search, min_length, progression_id, template_id) ==
    [command |-> command, page |-> page, items |-> items, search |-> search,
     min_length |-> min_length, progression_id |-> progression_id,
     template_id |-> template_id]

ArgSets ==
    { CmdArgs("browse", p, n, q, m, NoId, NoId) :
        p \in {DefaultPage, DefaultPage + 1}, n \in {1, DefaultItems},
        q \in { <<>>, <<"d","i","m">> }, m \in {0, 2} }
    \cup { CmdArgs("analyze", DefaultPage, DefaultItems, <<>>, 0, i, NoId) : i \in Ids }
    \cup { CmdArgs("generate", DefaultPage, DefaultItems, <<>>, 0, NoId, i) : i \in Ids }
    \cup { CmdArgs("stats", DefaultPage, DefaultItems, <<>>, 0, NoId, NoId),
           CmdArgs("export-lua-index", DefaultPage, DefaultItems, <<>>, 0, NoId, NoId) }

Printed(what, value) == [what |-> what, value |-> value]

InitMain ==
    /\ pc = "start"
    /\ notes_tuple = <<>>
    /\ locals = NoLocals
    /\ label = None
    /\ dataset = <<>>
    /\ call = NoCall
    /\ filtered = <<>>
    /\ result = None
    /\ collected = <<>>
    /\ env \in Envs
    /\ args \in ArgSets
    /\ stdout = <<>>
    /\ fault = None

NotMain == <<notes_tuple, locals, label, call, filtered, result, collected>>

\* lines 323-327
ResolvePath ==
    /\ pc = "start"
    /\ stdout' = Append(stdout, Printed("using_dataset", None))
    /\ pc' = "exists"
    /\ UNCHANGED <<NotMain, dataset, env, args, fault>>

\* line 329, the file is there
PathExists ==
    /\ pc = "exists"
    /\ env.file = "present"
    /\ pc' = "load"
    /\ UNCHANGED <<NotMain, dataset, env, args, stdout, fault>>

\* lines 329-352, the file is missing: rebuild it from split archive parts.
\* os.listdir (line 333) and int() (line 336) are outside any try block.
Reconstruct ==
    /\ pc = "exists"
    /\ env.file = "missing"
    /\ IF env.dir = "unlistable"
       THEN /\ fault' = "FileNotFoundError"
            /\ pc' = "crashed"
            /\ UNCHANGED <<env, stdout>>
       ELSE IF env.parts = "none"
       THEN /\ pc' = "load"
            /\ UNCHANGED <<env, stdout, fault>>
       ELSE IF env.parts = "misnamed"
       THEN /\ fault' = "ValueError"
            /\ pc' = "crashed"
            /\ UNCHANGED <<env, stdout>>
       ELSE /\ pc' = "load"
            /\ fault' = fault
            /\ IF env.archive = "bad"
               THEN /\ stdout' = stdout \o <<Printed("reconstructing", None),
                                             Printed("unzip_failed", None)>>
                    /\ env' = env
               ELSE /\ stdout' = stdout \o <<Printed("reconstructing", None),
                                             Printed("unzipped", None)>>
                    /\ env' = IF env.archive = "good"
                              THEN [env EXCEPT !.file = "present"]
                              ELSE env
    /\ UNCHANGED <<NotMain, dataset, args>>

\* load_chord_dataset (lines 15-29): the value returned and the line printed
load_chord_dataset(e) ==
    IF e.file = "present" /\ e.content = "ok"
    THEN [data |-> e.stored, printed |-> Printed("loaded", Len(e.stored))]
    ELSE [data |-> <<>>, printed |-> Printed("error_loading", None)]

\* line 353
Load ==
    /\ pc = "load"
    /\ LET r == load_chord_dataset(env)
       IN  /\ dataset' = r.data
           /\ stdout' = Append(stdout, r.printed)
    /\ pc' = "loaded"
    /\ UNCHANGED <<NotMain, env, args, fault>>

\* lines 355-357
LoadFailed ==
    /\ pc = "loaded"
    /\ dataset = <<>>
    /\ stdout' = Append(stdout, Printed("failed_to_load", None))
    /\ pc' = "exit"
    /\ UNCHANGED <<NotMain, dataset, env, args, fault>>

\* lines 359-361
CmdBrowse ==
    /\ pc = "loaded"
    /\ dataset # <<>>
    /\ args.command = "browse"
    /\ stdout' = Append(stdout, Printed("browse",
           browse_dataset(dataset, args.page, args.items, args.search, args.min_length)))
    /\ pc' = "exit"
    /\ UNCHANGED <<NotMain, dataset, env, args, fault>>

RECURSIVE MinSeq(_)
MinSeq(s) == IF Len(s) = 1 THEN s[1] ELSE Min2(s[1], MinSeq(Tail(s)))

RECURSIVE MaxSeq(_)
MaxSeq(s) == IF Len(s) = 1 THEN s[1] ELSE Max2(s[1], MaxSeq(Tail(s)))

\* lines 363-375; average_length is kept in hundredths
CmdStats ==
    /\ pc = "loaded"
    /\ dataset # <<>>
    /\ args.command = "stats"
    /\ LET lengths == [i \in 1..Len(dataset) |-> Len(dataset[i])]
       IN  stdout' = Append(stdout, Printed("stats",
               [total_progressions |-> Len(dataset),
                average_length |-> RoundHalfEven(100 * SumSeq(lengths), Len(lengths)),
                min_length |-> MinSeq(lengths),
                max_length |-> MaxSeq(lengths),
                dataset_loaded |-> TRUE]))
    /\ pc' = "exit"
    /\ UNCHANGED <<NotMain, dataset, env, args, fault>>

\* lines 377-383
CmdAnalyze ==
    /\ pc = "loaded"
    /\ dataset # <<>>
    /\ args.command = "analyze"
    /\ args.progression_id # NoId
    /\ LET id == args.progression_id[1]
       IN  IF 0 <= id /\ id < Len(dataset)
           THEN stdout' = Append(stdout, Printed("analysis",
                    analyze_progression(dataset[id + 1])))
           ELSE stdout' = Append(stdout, Printed("invalid_progression_id", id))
    /\ pc' = "exit"
    /\ UNCHANGED <<NotMain, dataset, env, args, fault>>

\* line 377 false for want of --progression-id: no later branch matches
CmdAnalyzeNoId ==
    /\ pc = "loaded"
    /\ dataset # <<>>
    /\ args.command = "analyze"
    /\ args.progression_id = NoId
    /\ pc' = "exit"
    /\ UNCHANGED <<NotMain, dataset, env, args, stdout, fault>>

\* lines 386-390: the progressions the generate command may come up with
GenerateOutcomes(data, template_id) ==
    IF template_id # NoId /\ 0 <= template_id[1] /\ template_id[1] < Len(data)
    THEN generate_similar_progression(data[template_id[1] + 1], data)
    ELSE random_choice(data)

\* lines 385-397
CmdGenerate ==
    /\ pc = "loaded"
    /\ dataset # <<>>
    /\ args.command = "generate"
    /\ \E outcome \in GenerateOutcomes(dataset, args.template_id) :
          IF outcome.raised # None
          THEN /\ fault' = outcome.raised
               /\ pc' = "crashed"
               /\ stdout' = stdout
          ELSE /\ stdout' = Append(stdout, Printed("generated",
                      [generated_progression |-> outcome.value,
                       analysis |-> analyze_progression(outcome.value)]))
               /\ pc' = "exit"
               /\ fault' = fault
    /\ UNCHANGED <<NotMain, dataset, env, args>>

\* lines 399-401 with export_lua_index (lines 272-304): the file is written
\* and its entry count printed, or the write fails and that is printed
CmdExport ==
    /\ pc = "loaded"
    /\ dataset # <<>>
    /\ args.command = "export-lua-index"
    /\ \E written \in BOOLEAN :
          stdout' = Append(stdout,
              IF written THEN Printed("exported", Min2(ExportLimit, Len(dataset)))
              ELSE Printed("export_failed", None))
    /\ pc' = "exit"
    /\ UNCHANGED <<NotMain, dataset, env, args, fault>>

NextMain ==
    \/ ResolvePath
    \/ PathExists
    \/ Reconstruct
    \/ Load
    \/ LoadFailed
    \/ CmdBrowse
    \/ CmdStats
    \/ CmdAnalyze
    \/ CmdAnalyzeNoId
    \/ CmdGenerate
    \/ CmdExport

SpecMain == InitMain /\ [][NextMain]_vars

(***************************************************************************)
(* Claims about main.                                                      *)
(***************************************************************************)
Said(what) == \E i \in 1..Len(stdout) : stdout[i].what = what

OutOfRange(id) == id # NoId /\ (id[1] < 0 \/ id[1] >= Len(dataset))

\* main has run a command on a loaded, non-empty collection with an id
\* outside [0, collectionSize)
BadIdRun ==
    /\ pc \in {"exit", "crashed"}
    /\ dataset # <<>>
    /\ \/ args.command = "analyze" /\ OutOfRange(args.progression_id)
       \/ args.command = "generate" /\ OutOfRange(args.template_id)

\* C10 (as stated): an out-of-range progression id for analyze or template
\* id for generate ends in a reported invalid-id error: no analysis and no
\* generated progression is printed, and main does not end on an uncaught
\* out-of-bounds fault.
C10_BadIdIsReportedError ==
    BadIdRun =>
        /\ Said("invalid_progression_id") \/ Said("invalid_template_id")
        /\ ~Said("analysis")
        /\ ~Said("generated")
        /\ fault = None

\* main has ended, by returning or on an uncaught exception
MainEnded == pc \in {"exit", "crashed"}

\* the dataset file is missing, unreadable as a pickle, or holds no progression
CannotLoad ==
    \/ env.file = "missing"
    \/ env.content # "ok"
    \/ env.stored = <<>>

\* a command branch of main (lines 359-401) has printed something
CommandOutput ==
    \/ Said("browse")
    \/ Said("stats")
    \/ Said("analysis")
    \/ Said("invalid_progression_id")
    \/ Said("generated")
    \/ Said("exported")
    \/ Said("export_failed")

\* C11 (as stated): when the collection cannot be loaded or loads as empty,
\* the run reports the load failure and ends without executing a command
\* and without an uncaught fault; a command executes only after a load that
\* produced a non-empty collection.
C11_LoadFailureHaltsCleanly ==
    /\ (MainEnded /\ CannotLoad) =>
          /\ Said("failed_to_load")
          /\ ~CommandOutput
          /\ fault = None
    /\ CommandOutput => dataset # <<>>

====
